---- MODULE Spec2Model ----
(***************************************************************************)
(* Model of src/index.js: the HTML text extraction pipeline                *)
(* (discovery -> p-limit bounded tasks -> Promise.all -> sort/filter ->    *)
(* pages.json -> llm.txt stream -> optional UI -> exit).                   *)
(*                                                                         *)
(* Paths are sequences of UTF-16 code units; texts are sequences of        *)
(* one-character strings.                                                  *)
(***************************************************************************)
EXTENDS Integers, Sequences, FiniteSets, TLC

\* ------------------------------------------------------------------ bounds
\* Largest number of HTML files on disk under the source directory.
MaxFiles == 2
\* Largest value of --concurrency tried.
MaxK == 2
\* Largest number of selectors that match text in a document given to the
\* selector loop on its own.
MaxFilled == 2
\* Longest text given to the normalization on its own.
MaxTextLen == 6

\* --------------------------------------------------------- program constants
\* extractTextFromHTML: a candidate is taken when t.trim().length > 50
MinContentLen == 50

\* Characters of a text shown in a preview of the HTML UI: .slice(0, 2000).
PreviewLimit == 2000

\* ------------------------------------------------------------ small helpers
Range(s) == {s[i] : i \in 1..Len(s)}

\* Three-way lexicographic comparison of two integer sequences (-1, 0, 1);
\* a proper prefix is smaller.
RECURSIVE LexCmp(_, _)
LexCmp(a, b) ==
    IF a = <<>> /\ b = <<>> THEN 0
    ELSE IF a = <<>> THEN -1
    ELSE IF b = <<>> THEN 1
    ELSE IF Head(a) < Head(b) THEN -1
    ELSE IF Head(a) > Head(b) THEN 1
    ELSE LexCmp(Tail(a), Tail(b))

\* Index of the first occurrence of c in t at or after position i, 0 if none.
RECURSIVE IndexFrom(_, _, _)
IndexFrom(t, c, i) ==
    IF i > Len(t) THEN 0
    ELSE IF t[i] = c THEN i
    ELSE IndexFrom(t, c, i + 1)

\* --------------------------------------------------------------- code units
\* The UTF-16 code units that occur in the modelled paths:
\* '/', '.', '\', 'B', 'a', 'h', 'm', 's', 't', U+00E5 (a with ring,
\* precomposed) and U+030A (combining ring above).
Cu == [slash |-> 47, dot |-> 46, backslash |-> 92, B |-> 66, a |-> 97, h |-> 104, m |-> 109,
       s |-> 115, t |-> 116, aRing |-> 229, ring |-> 778]

\* ".htm", the extension every discovered file carries (pattern **/*.htm?(l)).
ExtHtm == <<Cu.dot, Cu.h, Cu.t, Cu.m>>

\* File names (relative to SRC_DIR) that may exist on disk:
\*   "B.htm", a-ring.htm spelled a + U+030A, a-ring.htm spelled U+00E5.
NameB        == <<Cu.B>> \o ExtHtm
NameADecomp  == <<Cu.a, Cu.ring>> \o ExtHtm
NameAPrecomp == <<Cu.aRing>> \o ExtHtm
NameUniverse == {NameB, NameADecomp, NameAPrecomp}

\* Files in a subdirectory of SRC_DIR and beside it: "t.htm", "tt.htm" and
\* "t/t.htm"; and a file at the top of SRC_DIR whose name holds a backslash,
\* "t\t.htm".
NameT    == <<Cu.t>> \o ExtHtm
NameBackslash == <<Cu.t, Cu.backslash, Cu.t>> \o ExtHtm
NameTT   == <<Cu.t, Cu.t>> \o ExtHtm
NameSubT == <<Cu.t, Cu.slash, Cu.t>> \o ExtHtm

VARIABLES
    cwd,              \* process.cwd(), as the segments of an absolute path
    arg,              \* argument of the function applied on its own
    ret               \* its return value, <<>> before the call

\* Directories are sequences of path segments below the filesystem root.
\* SRC_DIR is /s; the run is started in its parent /, in /s itself or in /s/t.
SrcDirSegs == <<(<<Cu.s>>)>>
CwdParent  == <<>>
CwdSrc     == SrcDirSegs
CwdSub     == SrcDirSegs \o <<(<<Cu.t>>)>>

\* The segments of a slash-separated path.
RECURSIVE Segments(_)
Segments(p) ==
    IF IndexFrom(p, Cu.slash, 1) = 0 THEN <<p>>
    ELSE <<SubSeq(p, 1, IndexFrom(p, Cu.slash, 1) - 1)>>
         \o Segments(SubSeq(p, IndexFrom(p, Cu.slash, 1) + 1, Len(p)))

\* Segments joined with '/'.
RECURSIVE Join(_)
Join(segs) ==
    IF segs = <<>> THEN <<>>
    ELSE IF Len(segs) = 1 THEN Head(segs)
    ELSE Head(segs) \o <<Cu.slash>> \o Join(Tail(segs))

\* Length of the longest common prefix of two segment sequences.
RECURSIVE CommonPrefixLen(_, _)
CommonPrefixLen(a, b) ==
    IF a = <<>> \/ b = <<>> \/ Head(a) # Head(b) THEN 0
    ELSE 1 + CommonPrefixLen(Tail(a), Tail(b))

\* path.relative(from, to) for two absolute paths: one ".." per segment of
\* from below the common ancestor, then the rest of to.
PathRelative(from, to) ==
    LET n == CommonPrefixLen(from, to)
    IN  Join([i \in 1..(Len(from) - n) |-> <<Cu.dot, Cu.dot>>]
             \o SubSeq(to, n + 1, Len(to)))

\* path.relative(process.cwd(), f), f = SRC_DIR/<name>
RelToCwd(f) == PathRelative(cwd, SrcDirSegs \o Segments(f))

\* path.relative(srcDir, item.path)
RelToSrc(f) == f

\* ------------------------------------------------- String.prototype.localeCompare
\* Collation elements of one code unit: the precomposed a-ring is canonically
\* equivalent to a + combining ring.
CollationElements(c) == IF c = Cu.aRing THEN <<Cu.a, Cu.ring>> ELSE <<c>>

RECURSIVE Decompose(_)
Decompose(p) ==
    IF p = <<>> THEN <<>> ELSE CollationElements(Head(p)) \o Decompose(Tail(p))

\* Primary weight (0 = ignorable at this level): punctuation before letters
\* ('.' before '/' before '\'), letters in alphabetical order regardless of
\* case.
PrimaryWeight(c) ==
    CASE c = Cu.dot   -> 1
      [] c = Cu.slash -> 2
      [] c = Cu.backslash -> 3
      [] c = Cu.a  -> 10
      [] c = Cu.B     -> 11
      [] c = Cu.h     -> 17
      [] c = Cu.m     -> 22
      [] c = Cu.s     -> 28
      [] c = Cu.t     -> 29
      [] OTHER       -> 0

\* Secondary weight of a combining mark (0 = none).
SecondaryWeight(c) == IF c = Cu.ring THEN 1 ELSE 0

\* Tertiary weight: lower case before upper case.
TertiaryWeight(c) == IF c = Cu.B THEN 1 ELSE 0

RECURSIVE PrimaryKey(_)
PrimaryKey(p) ==
    IF p = <<>> THEN <<>>
    ELSE IF PrimaryWeight(Head(p)) = 0 THEN PrimaryKey(Tail(p))
    ELSE <<PrimaryWeight(Head(p))>> \o PrimaryKey(Tail(p))

\* One secondary weight per collation element, in the order of the string:
\* the common weight 0 for a base character, the mark's own weight for a
\* combining mark wherever it stands.
RECURSIVE SecondaryKey(_)
SecondaryKey(p) ==
    IF p = <<>> THEN <<>>
    ELSE <<SecondaryWeight(Head(p))>> \o SecondaryKey(Tail(p))

RECURSIVE TertiaryKey(_)
TertiaryKey(p) ==
    IF p = <<>> THEN <<>>
    ELSE IF PrimaryWeight(Head(p)) = 0 THEN TertiaryKey(Tail(p))
    ELSE <<TertiaryWeight(Head(p))>> \o TertiaryKey(Tail(p))

\* a.localeCompare(b): primary keys first, then secondary, then tertiary.
LocaleCompare(a, b) ==
    LET da == Decompose(a)
        db == Decompose(b)
        p  == LexCmp(PrimaryKey(da), PrimaryKey(db))
        s  == LexCmp(SecondaryKey(da), SecondaryKey(db))
    IN  IF p # 0 THEN p
        ELSE IF s # 0 THEN s
        ELSE LexCmp(TertiaryKey(da), TertiaryKey(db))

\* Default Array.prototype.sort() comparison of strings: UTF-16 code units.
CodeUnitLess(a, b) == LexCmp(a, b) < 0

\* unique.sort() in listHtmlFiles: the set of resolved paths in ascending
\* code-unit order (all paths share the SRC_DIR prefix, so names decide).
RECURSIVE SortedUnique(_)
SortedUnique(S) ==
    IF S = {} THEN <<>>
    ELSE LET least == CHOOSE x \in S : \A y \in S \ {x} : CodeUnitLess(x, y)
         IN  <<least>> \o SortedUnique(S \ {least})

\* Stable insertion of e into a sequence already ordered by the comparator
\* (a, b) => a.rel.localeCompare(b.rel): e goes after every element that
\* compares less than or equal to it.
RECURSIVE InsertByRel(_, _)
InsertByRel(sorted, e) ==
    IF sorted = <<>> THEN <<e>>
    ELSE IF LocaleCompare(Head(sorted).rel, e.rel) <= 0
         THEN <<Head(sorted)>> \o InsertByRel(Tail(sorted), e)
         ELSE <<e>> \o sorted

\* Mutant of SortByRel: the array is left in the order Promise.all gave it.
NoSort(s) == s

\* extracted.sort((a, b) => a.rel.localeCompare(b.rel)); Array.prototype.sort
\* is stable.
RECURSIVE SortByRel(_)
SortByRel(s) ==
    IF s = <<>> THEN <<>>
    ELSE InsertByRel(SortByRel(SubSeq(s, 1, Len(s) - 1)), s[Len(s)])

\* ------------------------------------------------------------- the extractor
\* The characters matched by \s and removed by String.prototype.trim:
\* WhiteSpace and LineTerminator of ECMAScript.  A text is a sequence of
\* characters, each written as a one-character string; a character that has
\* no escape in a string is written as its code point.
WhiteSpace ==
    {"\t", "\n", "U+000B", "\f", "\r", " ", "U+00A0", "U+1680",
     "U+2000", "U+2001", "U+2002", "U+2003", "U+2004", "U+2005", "U+2006",
     "U+2007", "U+2008", "U+2009", "U+200A", "U+2028", "U+2029", "U+202F",
     "U+205F", "U+3000", "U+FEFF"}

IsSpace(c) == c \in WhiteSpace

\* String.prototype.trim
RECURSIVE TrimLeft(_)
TrimLeft(t) ==
    IF t # <<>> /\ IsSpace(Head(t)) THEN TrimLeft(Tail(t)) ELSE t

RECURSIVE TrimRight(_)
TrimRight(t) ==
    IF t # <<>> /\ IsSpace(t[Len(t)]) THEN TrimRight(SubSeq(t, 1, Len(t) - 1))
    ELSE t

Trim(t) == TrimRight(TrimLeft(t))

\* text.replace(/\s+/g, ' ')
RECURSIVE CollapseSpaces(_)
CollapseSpaces(t) ==
    IF t = <<>> THEN <<>>
    ELSE IF IsSpace(Head(t))
         THEN <<" ">> \o CollapseSpaces(TrimLeft(t))
         ELSE <<Head(t)>> \o CollapseSpaces(Tail(t))

\* text.replace(/<open>.*?<close>/g, ''): scanning from the left, each
\* opening delimiter that has a closing delimiter after it is removed together
\* with everything up to the first such closing delimiter.  (The text holds no
\* line terminator at this point: whitespace has been collapsed.)
RECURSIVE StripDelimited(_, _, _)
StripDelimited(t, open, close) ==
    IF t = <<>> THEN <<>>
    ELSE IF Head(t) = open /\ IndexFrom(t, close, 2) # 0
         THEN StripDelimited(SubSeq(t, IndexFrom(t, close, 2) + 1, Len(t)),
                             open, close)
         ELSE <<Head(t)>> \o StripDelimited(Tail(t), open, close)

\* text.replace(/\s+/g,' ').replace(/\[.*?\]/g,'').replace(/\{.*?\}/g,'').trim()
Normalize(t) ==
    Trim(StripDelimited(StripDelimited(CollapseSpaces(t), "[", "]"), "{", "}"))

\* The selector priority list; Len(Selectors) candidates per document.
Selectors ==
    <<"main", "article", "[role=main]", ".main-content", ".content", ".prose",
      ".container", "body">>

\* Mutant of FirstCandidate: a candidate of exactly MinContentLen is taken.
RECURSIVE FirstCandidateAtLeast(_, _)
FirstCandidateAtLeast(dom, i) ==
    IF i > Len(Selectors) THEN <<>>
    ELSE IF dom[i] # <<>> /\ Len(Trim(dom[i])) >= MinContentLen
         THEN dom[i]
    ELSE FirstCandidateAtLeast(dom, i + 1)

\* for (const sel of selectors) { const t = $(sel).text();
\*   if (t && t.trim().length > 50) { text = t; break; } }
\* dom[i] is $(Selectors[i]).text() after the noise nodes have been removed.
RECURSIVE FirstCandidate(_, _)
FirstCandidate(dom, i) ==
    IF i > Len(Selectors) THEN <<>>
    ELSE IF dom[i] # <<>> /\ Len(Trim(dom[i])) > MinContentLen THEN dom[i]
    ELSE FirstCandidate(dom, i + 1)

\* if (!text) text = $('body').text() || '';
SelectText(dom) ==
    IF FirstCandidate(dom, 1) # <<>> THEN FirstCandidate(dom, 1)
    ELSE dom[Len(Selectors)]

\* A file's content: raw is what fs.readFile returns when the document holds
\* no markup (otherwise a stand-in of the markup's first characters), bytes
\* the file's size, dom the texts selected by cheerio.
NoDom == [i \in 1..Len(Selectors) |-> <<>>]

\* if (!html || html.trim().length === 0)
IsBlankHtml(html) == html.raw = <<>> \/ Len(Trim(html.raw)) = 0

\* The text extractTextFromHTML returns for content read successfully.
ExtractText(html) ==
    IF IsBlankHtml(html) THEN <<>> ELSE Normalize(SelectText(html.dom))

\* sha256(content): a digest is modelled by the content it is the digest of
\* (collision-free).
sha256(content) == <<"sha256", content>>

\* ------------------------------------------------------------ input universe
\* $(sel).text() of a document whose <main> holds more than MinContentLen
\* characters, among them a CRLF line end, a '<', a no-break space and a
\* [..] and a {..} fragment.
MainText ==
    <<"\r", "\n", "a", "<", " ", "U+00A0", "[", "1", "]", "{", "t", "}", " ">>
        \o [i \in 1..MinContentLen |-> "x"] \o <<" ">>

\* A whitespace-only file, the document <body></body>, and a document with a
\* <main> region.
HtmlWhitespace == [raw |-> <<"\r", "\n">>, bytes |-> 2, dom |-> NoDom]
HtmlEmptyBody  == [raw |-> <<"<">>, bytes |-> 13, dom |-> NoDom]
HtmlMainDoc    ==
    [raw |-> <<"<">>, bytes |-> 90,
     dom |-> [i \in 1..Len(Selectors) |->
                 IF Selectors[i] \in {"main", "body"} THEN MainText ELSE <<>>]]
HtmlUniverse == {HtmlWhitespace, HtmlEmptyBody, HtmlMainDoc}

\* err.message of the errors fs.readFile rejects with.
ReadErrorMessages == {"EACCES: permission denied", ""}

\* What the filesystem holds for one file during the run: its content,
\* whether fs.readFile succeeds (and the error's message when it does not),
\* and whether the later fs.stat succeeds.  The content of a file that cannot
\* be read shows only through its size.
FileStates ==
    [html : HtmlUniverse, readOk : {TRUE}, message : {""}, statOk : BOOLEAN]
    \cup
    [html : {HtmlMainDoc}, readOk : {FALSE}, message : ReadErrorMessages,
     statOk : BOOLEAN]

\* argv.concurrency values tried: the invalid -1 and 0, and 1..MaxK.
ConcurrencyValues == (-1)..MaxK

\* ------------------------------------------------------------------ JS values
\* An optional value: <<>> is null / undefined, <<v>> is the value v.
Null == <<>>
Some(v) == <<v>>

\* !x for an optional string: null, undefined and '' are falsy.
IsFalsy(x) == x = Null \/ x = Some("")

\* x || null
OrNull(x) == IF IsFalsy(x) THEN Null ELSE x

\* ------------------------------------------------------------------- state
VARIABLES
    srcExists,        \* fs.pathExists(SRC_DIR)
    disk,             \* name -> FileStates, the files under SRC_DIR
    K,                \* argv.concurrency
    pc,               \* main's position
    fatalMsg,         \* what fatal() reported, Null before
    publicDir,        \* PUBLIC_DIR has been created by fs.ensureDir
    files,            \* listHtmlFiles' result
    queue,            \* p-limit's queue: indices into files, not yet started
    activeCount,      \* p-limit's activeCount
    kicks,            \* p-limit's deferred start attempts, one per limit() call
    task,             \* index -> position of the task body
    started,          \* index -> how many times the task body was entered
    res,              \* index -> what extractTextFromHTML returned
    results,          \* index -> the record the task body returned
    completionOrder,  \* indices in the order the task bodies returned
    extracted,        \* the array Promise.all resolved to, then sorted
    pagesFile,        \* content of pages.json, Null while not written
    stream,           \* chunks written to the llm.txt write stream
    corpusFile,       \* content of llm.txt once the stream has ended
    uiFile            \* content of llm_ui.html, Null while not written

vars ==
    <<cwd, arg, ret, srcExists, disk, K, pc, fatalMsg, publicDir, files, queue, activeCount,
      kicks, task, started, res, results, completionOrder, extracted,
      pagesFile, stream, corpusFile, uiFile>>

inputVars == <<srcExists, disk, K, cwd, arg, ret>>
limitVars == <<queue, activeCount, kicks>>
taskVars  == <<task, started, res, results, completionOrder>>
outVars   == <<extracted, pagesFile, stream, corpusFile, uiFile>>

\* The empty function.
Empty == [x \in {} |-> 0]

\* The sets of files that can be on disk.
Disks ==
    UNION {[names -> FileStates] :
              names \in {S \in SUBSET NameUniverse : Cardinality(S) <= MaxFiles}}

\* main's variables before main runs.
MainStart ==
    /\ pc = "start"
    /\ fatalMsg = Null
    /\ publicDir = FALSE
    /\ files = <<>>
    /\ queue = <<>>
    /\ activeCount = 0
    /\ kicks = 0
    /\ task = Empty
    /\ started = Empty
    /\ res = Empty
    /\ results = Empty
    /\ completionOrder = <<>>
    /\ extracted = <<>>
    /\ pagesFile = Null
    /\ stream = <<>>
    /\ corpusFile = Null
    /\ uiFile = Null

Init ==
    /\ cwd = CwdParent
    /\ arg = Null
    /\ ret = Null
    /\ srcExists \in BOOLEAN
    /\ disk \in (IF srcExists THEN Disks ELSE {Empty})
    /\ K \in ConcurrencyValues
    /\ MainStart

\* -------------------------------------------------------------- main: preamble
\* fatal(...): console.error, then process.exit(1); nothing after it runs.
Fatal(msg) ==
    /\ pc' = "fatal"
    /\ fatalMsg' = Some(msg)

\* if (!await fs.pathExists(SRC_DIR)) fatal(...)
SourceMissing ==
    /\ pc = "start"
    /\ ~srcExists
    /\ Fatal("Source directory does not exist")
    /\ UNCHANGED <<inputVars, publicDir, files, limitVars, taskVars, outVars>>

\* ... else await fs.ensureDir(PUBLIC_DIR)
EnsurePublicDir ==
    /\ pc = "start"
    /\ srcExists
    /\ publicDir' = TRUE
    /\ pc' = "scan"
    /\ UNCHANGED <<inputVars, fatalMsg, files, limitVars, taskVars, outVars>>

\* listHtmlFiles(SRC_DIR, argv.pattern): glob, resolve, dedupe, sort.
listHtmlFiles(d) == SortedUnique(DOMAIN d)

\* if (!files || files.length === 0)
NoFilesFound(fs) == Len(fs) = 0

ScanEmpty ==
    /\ pc = "scan"
    /\ NoFilesFound(listHtmlFiles(disk))
    /\ files' = listHtmlFiles(disk)
    /\ Fatal("No HTML files found.")
    /\ UNCHANGED <<inputVars, publicDir, limitVars, taskVars, outVars>>

Scan ==
    /\ pc = "scan"
    /\ ~NoFilesFound(listHtmlFiles(disk))
    /\ files' = listHtmlFiles(disk)
    /\ pc' = "limit"
    /\ UNCHANGED <<inputVars, fatalMsg, publicDir, limitVars, taskVars, outVars>>

\* ------------------------------------------------------------------- p-limit
\* Mutant of ValidConcurrency: a ceiling of 0 is let through.
ValidConcurrencyAllowZero(k) == k >= 0

\* pLimit(concurrency) returns a limiter only when concurrency is a positive
\* integer (or Infinity).
ValidConcurrency(k) == k >= 1

\* What main's catch receives when the ceiling is invalid depends on the
\* installed p-limit, which index.js does not pin: p-limit 3 and later throw
\* the TypeError 'Expected concurrency to be a number from 1 and up' from
\* pLimit itself; p-limit 2 returns a rejected promise instead of a limiter,
\* and the first limit(...) call in files.map throws 'limit is not a
\* function'.  Either way no task function has been queued.
LimitInvalidMessages ==
    {"Unhandled error: Expected concurrency to be a number from 1 and up",
     "Unhandled error: limit is not a function"}

\* Mutant of CanStart: the ceiling test is off by one.
CanStartOffByOne(active, k) == active <= k

\* p-limit starts a queued function only while activeCount < concurrency.
CanStart(active, k) == active < k

\* pLimit(argv.concurrency) gives no limiter: the error thrown at line 384 or
\* 385 reaches main's catch, which reports it through fatal().
LimitInvalid ==
    /\ pc = "limit"
    /\ ~ValidConcurrency(K)
    /\ \E msg \in LimitInvalidMessages : Fatal(msg)
    /\ UNCHANGED <<inputVars, publicDir, files, limitVars, taskVars, outVars>>

\* const tasks = files.map(f => limit(async () => {...})): every limit() call
\* queues its function and defers one start attempt; main then awaits
\* Promise.all(tasks).
MapTasks ==
    /\ pc = "limit"
    /\ ValidConcurrency(K)
    /\ queue' = [i \in 1..Len(files) |-> i]
    /\ kicks' = Len(files)
    /\ task' = [i \in 1..Len(files) |-> "queued"]
    /\ started' = [i \in 1..Len(files) |-> 0]
    /\ pc' = "awaitAll"
    /\ UNCHANGED <<inputVars, fatalMsg, publicDir, files, activeCount, res,
                   results, completionOrder, outVars>>

\* p-limit's run(): activeCount++, then the task body runs up to its first
\* await, fs.readFile in extractTextFromHTML.
StartHead ==
    /\ activeCount' = activeCount + 1
    /\ queue' = Tail(queue)
    /\ task' = [task EXCEPT ![Head(queue)] = "reading"]
    /\ started' = [started EXCEPT ![Head(queue)] = @ + 1]

\* A deferred start attempt:
\*   if (activeCount < concurrency && queue.size > 0) queue.dequeue()()
Kick ==
    /\ kicks > 0
    /\ kicks' = kicks - 1
    /\ IF CanStart(activeCount, K) /\ queue # <<>>
       THEN StartHead
       ELSE UNCHANGED <<activeCount, queue, task, started>>
    /\ UNCHANGED <<inputVars, pc, fatalMsg, publicDir, files, res, results,
                   completionOrder, outVars>>

\* Promise reactions run before any I/O callback: a deferred start attempt or
\* a returned task body whose p-limit continuation has not run yet.
MicrotasksPending == kicks > 0 \/ \E i \in DOMAIN task : task[i] = "returned"

\* ------------------------------------------------------------- the task body
\* extractTextFromHTML(filePath): { filePath, text } when the read succeeds,
\* { filePath, text: '', error: err.message } from the catch block.
extractTextFromHTML(f, st) ==
    IF st.readOk
    THEN [filePath |-> f, text |-> ExtractText(st.html), error |-> Null]
    ELSE [filePath |-> f, text |-> <<>>, error |-> Some(st.message)]

\* Mutant of StatOrDefault: the size of the content is reported even when
\* fs.stat failed.
StatIgnoringFailure(st) == [size |-> st.html.bytes]

\* await fs.stat(f).catch(() => ({ size: 0 }))
StatOrDefault(st) == IF st.statOk THEN [size |-> st.html.bytes] ELSE [size |-> 0]

\* error: res.error || null
ErrorField(r) == OrNull(r.error)

\* Mutant of TaskResult: no hash is computed for an empty text.
TaskResultNoHashWhenEmpty(f, r, stat) ==
    [path       |-> f,
     rel        |-> RelToCwd(f),
     size       |-> stat.size,
     textLength |-> Len(r.text),
     text       |-> r.text,
     hash       |-> IF r.text = <<>> THEN Null ELSE sha256(r.text),
     error      |-> ErrorField(r)]

\* The object the task body returns.
TaskResult(f, r, stat) ==
    [path       |-> f,
     rel        |-> RelToCwd(f),
     size       |-> stat.size,
     textLength |-> Len(r.text),
     text       |-> r.text,
     hash       |-> sha256(r.text),
     error      |-> ErrorField(r)]

\* fs.readFile settles; extractTextFromHTML returns and the body calls fs.stat.
ReadComplete(i) ==
    /\ i \in DOMAIN task
    /\ task[i] = "reading"
    /\ ~MicrotasksPending
    /\ res' = res @@ (i :> extractTextFromHTML(files[i], disk[files[i]]))
    /\ task' = [task EXCEPT ![i] = "stating"]
    /\ UNCHANGED <<inputVars, pc, fatalMsg, publicDir, files, limitVars,
                   started, results, completionOrder, outVars>>

\* fs.stat settles (or its catch supplies size 0); the body returns its record.
StatComplete(i) ==
    /\ i \in DOMAIN task
    /\ task[i] = "stating"
    /\ ~MicrotasksPending
    /\ results' = results @@
           (i :> TaskResult(files[i], res[i], StatOrDefault(disk[files[i]])))
    /\ completionOrder' = Append(completionOrder, i)
    /\ task' = [task EXCEPT ![i] = "returned"]
    /\ UNCHANGED <<inputVars, pc, fatalMsg, publicDir, files, limitVars,
                   started, res, outVars>>

\* p-limit's next(), after the body's promise settled:
\*   activeCount--; if (queue.size > 0) queue.dequeue()()
LimitNext(i) ==
    /\ i \in DOMAIN task
    /\ task[i] = "returned"
    /\ kicks' = kicks
    /\ IF queue # <<>>
       THEN /\ activeCount' = activeCount
            /\ queue' = Tail(queue)
            /\ task' = [task EXCEPT ![i] = "released", ![Head(queue)] = "reading"]
            /\ started' = [started EXCEPT ![Head(queue)] = @ + 1]
       ELSE /\ activeCount' = activeCount - 1
            /\ task' = [task EXCEPT ![i] = "released"]
            /\ UNCHANGED <<queue, started>>
    /\ UNCHANGED <<inputVars, pc, fatalMsg, publicDir, files, res, results,
                   completionOrder, outVars>>

\* ------------------------------------------------------ fan-in and aggregation
\* Mutant of AllSettled: the fan-in waits for the tasks to start, not to settle.
AllStarted(t, r) == \A i \in DOMAIN t : t[i] # "queued"

\* Promise.all(tasks) resolves once every task promise has resolved.
AllSettled(t, r) == \A i \in DOMAIN t : i \in DOMAIN r

\* Mutant of PromiseAll: the values are collected in completion order.
PromiseAllCompletionOrder(r, order) == [i \in 1..Len(order) |-> r[order[i]]]

\* Promise.all resolves to the values in the order of the promises passed in,
\* whatever order they settled in.
PromiseAll(r, order) == [i \in 1..Len(order) |-> r[i]]

\* Mutant of IsSuccessful: nothing is filtered out.
KeepAll(e) == TRUE

\* extracted.filter(e => !e.error)
IsSuccessful(e) == IsFalsy(e.error)

successfulExtractions(all) == SelectSeq(all, IsSuccessful)

\* successfulExtractions.map(e => ({path, text, size, textLength}))
itemsForOutput(all) ==
    LET ok == successfulExtractions(all)
    IN  [i \in 1..Len(ok) |->
            [path |-> ok[i].path, text |-> ok[i].text, size |-> ok[i].size,
             textLength |-> ok[i].textLength]]

\* const pagesJson = successfulExtractions.map(e => ({path: e.rel, ...}))
pagesJson(all) ==
    LET ok == successfulExtractions(all)
    IN  [i \in 1..Len(ok) |->
            [path |-> ok[i].rel, size |-> ok[i].size,
             textLength |-> ok[i].textLength, hash |-> ok[i].hash,
             error |-> ok[i].error]]

\* Mutant of Aggregate: fs.writeFile(pagesJsonPath, ...) is not awaited, main
\* goes straight on to generateLLMTextStream.
AggregateNoAwait ==
    /\ pc = "awaitAll"
    /\ kicks = 0
    /\ AllSettled(task, results)
    /\ extracted' = SortByRel(PromiseAll(results, completionOrder))
    /\ pc' = "openStream"
    /\ UNCHANGED <<inputVars, fatalMsg, publicDir, files, limitVars, taskVars,
                   pagesFile, stream, corpusFile, uiFile>>

\* main resumes after await Promise.all(tasks): sorts, filters, builds
\* pagesJson and calls fs.writeFile(pagesJsonPath, ...).
Aggregate ==
    /\ pc = "awaitAll"
    /\ kicks = 0
    /\ AllSettled(task, results)
    /\ extracted' = SortByRel(PromiseAll(results, completionOrder))
    /\ pc' = "writingIndex"
    /\ UNCHANGED <<inputVars, fatalMsg, publicDir, files, limitVars, taskVars,
                   pagesFile, stream, corpusFile, uiFile>>

\* fs.writeFile(pagesJsonPath, JSON.stringify({generatedAt, source, pages}))
\* completes (generatedAt, a timestamp, is left out); generateLLMTextStream
\* is called and awaits fs.ensureDir.
WriteIndexComplete ==
    /\ pc = "writingIndex"
    /\ ~MicrotasksPending
    /\ pagesFile' = Some([source |-> "SRC_DIR", pages |-> pagesJson(extracted)])
    /\ pc' = "openStream"
    /\ UNCHANGED <<inputVars, fatalMsg, publicDir, files, limitVars, taskVars,
                   extracted, stream, corpusFile, uiFile>>

\* ------------------------------------------------------------- corpus writer
\* Number of decimal digits of n: n.toString().length
RECURSIVE DigitLen(_)
DigitLen(n) == IF n < 10 THEN 1 ELSE 1 + DigitLen(n \div 10)

RECURSIVE MaxOf(_, _)
MaxOf(s, floor) ==
    IF s = <<>> THEN floor
    ELSE LET m == MaxOf(Tail(s), floor) IN IF Head(s) > m THEN Head(s) ELSE m

RECURSIVE SumOf(_)
SumOf(s) == IF s = <<>> THEN 0 ELSE Head(s) + SumOf(Tail(s))

\* The table and summary makeTocSection renders: column widths, one row per
\* item, total file count and total character count.
TocTable(items) ==
    [maxPathLength  |-> MaxOf([i \in 1..Len(items) |-> Len(RelToSrc(items[i].path))],
                              Len("File Path")),
     maxSizeLength  |-> MaxOf([i \in 1..Len(items) |-> DigitLen(items[i].size)],
                              Len("Size")),
     maxCharsLength |-> MaxOf([i \in 1..Len(items) |-> DigitLen(items[i].textLength)],
                              Len("Chars")),
     rows  |-> [i \in 1..Len(items) |->
                   [relPath |-> RelToSrc(items[i].path),
                    size |-> items[i].size,
                    chars |-> items[i].textLength]],
     totalFiles |-> Len(items),
     totalChars |-> SumOf([i \in 1..Len(items) |-> items[i].textLength])]

\* Mutant of makeTocSection: no early return for an empty list.
makeTocSectionNoSentinel(items) == TocTable(items)

\* makeTocSection(items, srcDir): the sentinel for no items, else the table
\* and the summary.
makeTocSection(items) ==
    IF Len(items) = 0
    THEN [sentinel |-> "No files were processed."]
    ELSE TocTable(items)

\* (it.text && it.text.length > 0) ? it.text + '\n\n' : '[No extractable text]\n\n'
SectionBody(text) ==
    IF Len(text) > 0 THEN [text |-> text] ELSE [sentinel |-> "[No extractable text]"]

\* The two chunks written for one item: makeFileHeader(rel), then the body.
SectionChunks(it) ==
    <<[kind |-> "fileHeader", rel |-> RelToCwd(it.path)],
      [kind |-> "body", body |-> SectionBody(it.text)]>>

RECURSIVE AllSections(_)
AllSections(items) ==
    IF items = <<>> THEN <<>>
    ELSE SectionChunks(Head(items)) \o AllSections(Tail(items))

\* Everything generateLLMTextStream writes between createWriteStream and
\* stream.end (the "Generated:" line, a timestamp, is left out).
StreamChunks(items) ==
    <<[kind |-> "source", srcDir |-> "SRC_DIR"],
      [kind |-> "filesProcessed", count |-> Len(items)],
      [kind |-> "toc", toc |-> makeTocSection(items)]>>
    \o AllSections(items)

\* Mutant of WriteStream: the promise around stream.end(resolve) is not
\* awaited, generateLLMTextStream returns at once.
WriteStreamNoAwait ==
    /\ pc = "openStream"
    /\ ~MicrotasksPending
    /\ stream' = StreamChunks(itemsForOutput(extracted))
    /\ pc' = "afterCorpus"
    /\ UNCHANGED <<inputVars, fatalMsg, publicDir, files, limitVars, taskVars,
                   extracted, pagesFile, corpusFile, uiFile>>

\* fs.ensureDir completes; the stream is created, the header, the TOC and
\* every section are written, and stream.end(resolve) is called.
WriteStream ==
    /\ pc = "openStream"
    /\ ~MicrotasksPending
    /\ stream' = StreamChunks(itemsForOutput(extracted))
    /\ pc' = "streamEnding"
    /\ UNCHANGED <<inputVars, fatalMsg, publicDir, files, limitVars, taskVars,
                   extracted, pagesFile, corpusFile, uiFile>>

\* The stream has flushed and closed: generateLLMTextStream's promise resolves.
StreamFinished ==
    /\ pc = "streamEnding"
    /\ ~MicrotasksPending
    /\ corpusFile' = Some(stream)
    /\ pc' = "afterCorpus"
    /\ UNCHANGED <<inputVars, fatalMsg, publicDir, files, limitVars, taskVars,
                   extracted, pagesFile, stream, uiFile>>

\* .replace(/</g, '&lt;'): every '<' becomes the four characters "&lt;".
\* (The text is halved at each step, which keeps the evaluation shallow for
\* a preview of PreviewLimit characters.)
RECURSIVE EscapeLt(_)
EscapeLt(t) ==
    IF t = <<>> THEN <<>>
    ELSE IF Len(t) = 1
         THEN IF t[1] = "<" THEN <<"&", "l", "t", ";">> ELSE t
    ELSE EscapeLt(SubSeq(t, 1, Len(t) \div 2))
         \o EscapeLt(SubSeq(t, Len(t) \div 2 + 1, Len(t)))

\* .slice(0, 2000).replace(/</g, '&lt;'); both leave the sentinel as it is.
Preview(t) ==
    EscapeLt(IF Len(t) > PreviewLimit THEN SubSeq(t, 1, PreviewLimit) ELSE t)

\* .replace(/\\/g, '/')
SlashSeparated(p) ==
    [i \in 1..Len(p) |-> IF p[i] = Cu.backslash THEN Cu.slash ELSE p[i]]

\* makeHtmlUIContent(items, srcDir): one preview section per item.
makeHtmlUIContent(items) ==
    [i \in 1..Len(items) |->
        [rel |-> SlashSeparated(RelToCwd(items[i].path)),
         preview |-> IF Len(items[i].text) > 0
                     THEN [text |-> Preview(items[i].text)]
                     ELSE [sentinel |-> "[No extractable text]"]]]

\* if (argv.ui) { await fs.writeFile(UI_FILE, html) }; "Done"; process.exit(0)
Finish ==
    /\ pc = "afterCorpus"
    /\ \E ui \in BOOLEAN :
          uiFile' = IF ui THEN Some(makeHtmlUIContent(itemsForOutput(extracted)))
                    ELSE uiFile
    /\ pc' = "exit0"
    /\ UNCHANGED <<inputVars, fatalMsg, publicDir, files, limitVars, taskVars,
                   extracted, pagesFile, stream, corpusFile>>

\* ---------------------------------------------------------------- the system
Next ==
    \/ SourceMissing
    \/ EnsurePublicDir
    \/ ScanEmpty
    \/ Scan
    \/ LimitInvalid
    \/ MapTasks
    \/ Kick
    \/ \E i \in 1..MaxFiles : ReadComplete(i)
    \/ \E i \in 1..MaxFiles : StatComplete(i)
    \/ \E i \in 1..MaxFiles : LimitNext(i)
    \/ Aggregate
    \/ WriteIndexComplete
    \/ WriteStream
    \/ StreamFinished
    \/ Finish

Spec == Init /\ [][Next]_vars

\* ================================================================== claims
\* Positions of main after Promise.all(tasks) has resolved.
AfterFanIn == {"writingIndex", "openStream", "streamEnding", "afterCorpus", "exit0"}

\* Task bodies that have started and not yet returned their record.
InFlight == {i \in DOMAIN task : task[i] \in {"reading", "stating"}}

\* Indices of the files whose read fails.
ReadFailures == {i \in 1..Len(files) : ~disk[files[i]].readOk}

\* The relative paths of the sections of a corpus, in order.
RECURSIVE SectionRels(_)
SectionRels(chunks) ==
    IF chunks = <<>> THEN <<>>
    ELSE IF Head(chunks).kind = "fileHeader"
         THEN <<Head(chunks).rel>> \o SectionRels(Tail(chunks))
         ELSE SectionRels(Tail(chunks))

\* The bodies of the sections of a corpus, in order.
RECURSIVE SectionBodies(_)
SectionBodies(chunks) ==
    IF chunks = <<>> THEN <<>>
    ELSE IF Head(chunks).kind = "body"
         THEN <<Head(chunks).body>> \o SectionBodies(Tail(chunks))
         ELSE SectionBodies(Tail(chunks))

\* The results with no failure reason, in the order of the sequence.
RECURSIVE WithoutFailure(_)
WithoutFailure(all) ==
    IF all = <<>> THEN <<>>
    ELSE IF Head(all).error = Null
         THEN <<Head(all)>> \o WithoutFailure(Tail(all))
         ELSE WithoutFailure(Tail(all))

\* C1: once pages.json is written, it holds exactly one page record per
\* discovered file, failed files included.
C1_IndexHasOneRecordPerFile ==
    pagesFile # Null => Len(pagesFile[1].pages) = Len(files)

\* C2: when exactly one file's read fails, every other file has a section in
\* the corpus, and the failing file is in the index with a non-null error
\* and has no section in the corpus.
C2_Isolation ==
    (pc = "exit0" /\ Cardinality(ReadFailures) = 1) =>
        \A i \in 1..Len(files) :
            LET rel == RelToCwd(files[i])
            IN  IF i \in ReadFailures
                THEN /\ \E k \in 1..Len(pagesFile[1].pages) :
                            /\ pagesFile[1].pages[k].path = rel
                            /\ pagesFile[1].pages[k].error # Null
                     /\ rel \notin Range(SectionRels(corpusFile[1]))
                ELSE rel \in Range(SectionRels(corpusFile[1]))

\* C3: at most K task bodies are in flight (started, result not yet
\* produced) in every reachable state; under an invalid ceiling (K < 1) none
\* ever is.
C3_AtMostKInFlight ==
    /\ K >= 1 => Cardinality(InFlight) <= K
    /\ K < 1 => InFlight = {}

\* C3 witness: with K = 1 and two files, one body is in flight while the
\* other task waits in the queue with no start attempt left.
C3_Witness ==
    /\ K = 1
    /\ Len(files) = 2
    /\ kicks = 0
    /\ Cardinality(InFlight) = 1
    /\ \E i \in DOMAIN task : task[i] = "queued"

\* C4: no task body is entered twice, and once Promise.all has resolved every
\* one of the N bodies has been entered exactly once and has returned its
\* record, and the array it resolved to has N entries, one per input path.
C4_AllTasksOnceBeforeFanIn ==
    /\ \A i \in DOMAIN started : started[i] <= 1
    /\ pc \in AfterFanIn =>
          /\ \A i \in 1..Len(files) :
                started[i] = 1 /\ i \in DOMAIN results /\ task[i] \in {"returned", "released"}
          /\ Len(extracted) = Len(files)
          /\ \A i \in 1..Len(files) :
                Cardinality({k \in 1..Len(extracted) : extracted[k].path = files[i]}) = 1

\* C4 witness: the fan-in has completed over two files, one of which failed.
C4_Witness ==
    /\ pc = "writingIndex"
    /\ Len(files) = 2
    /\ \E k \in 1..Len(extracted) : extracted[k].error # Null

\* The aggregated batch as a function of the inputs alone: each file's record
\* computed from the disk, in discovery order, then sorted.
ExpectedExtracted ==
    SortByRel([i \in 1..Len(files) |->
                 TaskResult(files[i],
                            extractTextFromHTML(files[i], disk[files[i]]),
                            StatOrDefault(disk[files[i]]))])

\* C5: the aggregated batch, the index records and the corpus chunks are a
\* function of the file set, the file contents and K: they do not depend on
\* the order in which the task bodies completed.
C5_Deterministic ==
    /\ pc \in AfterFanIn => extracted = ExpectedExtracted
    /\ pagesFile # Null => pagesFile[1].pages = pagesJson(ExpectedExtracted)
    /\ corpusFile # Null =>
          corpusFile[1] = StreamChunks(itemsForOutput(ExpectedExtracted))

\* C5 witness: two files whose relative paths compare equal under
\* localeCompare completed in the reverse of discovery order, and the corpus
\* has been written.
C5_Witness ==
    /\ corpusFile # Null
    /\ completionOrder = <<2, 1>>
    /\ LocaleCompare(RelToCwd(files[1]), RelToCwd(files[2])) = 0
    /\ extracted[1].text # extracted[2].text

\* A fatal batch-level condition of the inputs.
FatalCondition == ~srcExists \/ DOMAIN disk = {} \/ K < 1

\* C6: in a run with a fatal batch-level condition no file is ever read or
\* extracted, nothing is written to pages.json or llm.txt, and main never
\* gets past the creation of the limiter.
C6_FatalBeforeProcessing ==
    FatalCondition =>
        /\ pc \in {"start", "scan", "limit", "fatal"}
        /\ \A i \in DOMAIN started : started[i] = 0
        /\ res = Empty /\ results = Empty
        /\ pagesFile = Null /\ stream = <<>> /\ corpusFile = Null

\* C6 witness: the run ended in fatal() because the ceiling is invalid, with
\* files discovered.
C6_Witness == pc = "fatal" /\ K < 1 /\ Len(files) > 0

\* C7: the corpus holds one section per result without failure reason, in
\* aggregator order, and none for a failed result; the TOC rows and the
\* "Files processed" count cover the same results; an empty text is replaced
\* by the "[No extractable text]" sentinel.
C7_CorpusCoversSuccesses ==
    corpusFile # Null =>
        LET ok == WithoutFailure(extracted)
            c  == corpusFile[1]
        IN  /\ SectionRels(c) = [i \in 1..Len(ok) |-> ok[i].rel]
            /\ SectionBodies(c) =
                  [i \in 1..Len(ok) |->
                      IF ok[i].text = <<>>
                      THEN [sentinel |-> "[No extractable text]"]
                      ELSE [text |-> ok[i].text]]
            /\ c[2].count = Len(ok)
            /\ Len(ok) > 0 =>
                  /\ c[3].toc.totalFiles = Len(ok)
                  /\ Len(c[3].toc.rows) = Len(ok)
                  /\ \A i \in 1..Len(ok) :
                        /\ c[3].toc.rows[i].relPath = RelToSrc(ok[i].path)
                        /\ c[3].toc.rows[i].chars = ok[i].textLength

\* C7 witness: a corpus written from a failed result and a successful result
\* with empty text.
C7_Witness ==
    /\ corpusFile # Null
    /\ \E k \in 1..Len(extracted) : extracted[k].error # Null
    /\ \E k \in 1..Len(extracted) :
          extracted[k].error = Null /\ extracted[k].text = <<>>

\* C8: a task whose read failed returns the read error as failure reason,
\* empty text and size 0, whether or not fs.stat succeeded.
C8_ReadFailureResult ==
    \A i \in DOMAIN results :
        ~disk[files[i]].readOk =>
            /\ results[i].error = Some(disk[files[i]].message)
            /\ results[i].text = <<>>
            /\ results[i].size = 0

\* C9: a result carries a failure reason if and only if the read threw,
\* whatever the error's message.
C9_ErrorIffReadFailed ==
    \A i \in DOMAIN results :
        (results[i].error # Null) <=> ~disk[files[i]].readOk

\* C10: a file read successfully whose fs.stat fails gets size 0, no failure
\* reason, and text, length and hash of the content read; it is among the
\* successful results, it has a section in the corpus, and the run does not
\* end in fatal().
C10_StatFailureIsSuccess ==
    \A i \in DOMAIN results :
        (disk[files[i]].readOk /\ ~disk[files[i]].statOk) =>
            LET t == ExtractText(disk[files[i]].html)
            IN  /\ results[i].size = 0
                /\ results[i].error = Null
                /\ results[i].text = t
                /\ results[i].textLength = Len(t)
                /\ results[i].hash = sha256(t)
                /\ pc # "fatal"
                /\ pc \in AfterFanIn =>
                      \E k \in 1..Len(successfulExtractions(extracted)) :
                          successfulExtractions(extracted)[k] = results[i]
                /\ corpusFile # Null =>
                      RelToCwd(files[i]) \in Range(SectionRels(corpusFile[1]))

\* C10 witness: the run completed with a document that was read and whose
\* fs.stat failed, next to another file.
C10_Witness ==
    /\ pc = "exit0"
    /\ Len(files) = 2
    /\ \E i \in DOMAIN results :
          /\ disk[files[i]].readOk
          /\ ~disk[files[i]].statOk
          /\ disk[files[i]].html = HtmlMainDoc

\* The paths of the page records of an index, in order.
PagePaths(index) == [i \in 1..Len(index.pages) |-> index.pages[i].path]

\* A sequence of paths is in strictly ascending UTF-16 code-unit order.
AscendingByCodeUnit(ps) ==
    \A i, j \in 1..Len(ps) : i < j => CodeUnitLess(ps[i], ps[j])

\* A sequence of paths is in non-descending localeCompare order.
OrderedByLocale(ps) ==
    \A i, j \in 1..Len(ps) : i < j => LocaleCompare(ps[i], ps[j]) <= 0

\* C11 as claimed: the aggregated batch, the index records and the corpus
\* sections are in ascending order of the relative path under lexicographic
\* (code unit by code unit) string comparison.
C11_AscendingLexicographic ==
    /\ pc \in AfterFanIn =>
          AscendingByCodeUnit([i \in 1..Len(extracted) |-> extracted[i].rel])
    /\ pagesFile # Null => AscendingByCodeUnit(PagePaths(pagesFile[1]))
    /\ corpusFile # Null => AscendingByCodeUnit(SectionRels(corpusFile[1]))

\* C11 amended: the aggregated batch, the index records and the corpus
\* sections are in non-descending order of the relative path under
\* String.prototype.localeCompare (collation order, in which case and
\* canonically equivalent spellings do not follow code-unit order).
C11_OrderedByLocaleCompare ==
    /\ pc \in AfterFanIn =>
          OrderedByLocale([i \in 1..Len(extracted) |-> extracted[i].rel])
    /\ pagesFile # Null => OrderedByLocale(PagePaths(pagesFile[1]))
    /\ corpusFile # Null => OrderedByLocale(SectionRels(corpusFile[1]))

\* C11 witness: "B.htm" and an a-ring file were discovered in code-unit order
\* (B first) and the written corpus has the a-ring section first.
C11_Witness ==
    /\ corpusFile # Null
    /\ Len(files) = 2
    /\ files[1] = NameB
    /\ Len(SectionRels(corpusFile[1])) = 2
    /\ SectionRels(corpusFile[1])[2] = RelToCwd(NameB)

\* C12: every result carries the digest and the length of its own extracted
\* text, so equal texts give equal hashes, and a result with empty text (every
\* failed result among them) carries the digest of the empty string.
C12_HashAndLengthOfText ==
    \A i \in DOMAIN results :
        /\ results[i].hash = sha256(results[i].text)
        /\ results[i].textLength = Len(results[i].text)
        /\ ~disk[files[i]].readOk => results[i].text = <<>>
        /\ results[i].text = <<>> => results[i].hash = sha256(<<>>)
        /\ \A j \in DOMAIN results :
              results[i].text = results[j].text => results[i].hash = results[j].hash

\* C12 witness: a failed result and a successful result with text, both
\* returned.
C12_Witness ==
    \E i, j \in DOMAIN results :
        /\ results[i].error # Null
        /\ results[i].hash = sha256(<<>>)
        /\ results[j].error = Null
        /\ results[j].textLength > 0

\* C13: when no result is successful, the TOC written to the corpus is the
\* "No files were processed." sentinel line, not a table with zero rows.
C13_EmptyTocIsSentinel ==
    /\ (stream # <<>> /\ WithoutFailure(extracted) = <<>>) =>
          stream[3].toc = [sentinel |-> "No files were processed."]
    /\ (corpusFile # Null /\ WithoutFailure(extracted) = <<>>) =>
          /\ corpusFile[1][3].kind = "toc"
          /\ corpusFile[1][3].toc = [sentinel |-> "No files were processed."]

\* C13 witness: two files were discovered, both reads failed, and the corpus
\* has been written.
C13_Witness ==
    /\ corpusFile # Null
    /\ Len(extracted) = 2
    /\ \A k \in 1..Len(extracted) : extracted[k].error # Null

\* C15: nothing is written to pages.json or llm.txt while a task body is in
\* flight or has yet to return: both are written by main after all N tasks
\* completed, pages.json first, and the write of pages.json is over before
\* the first chunk goes to the llm.txt stream.
C15_WritesAfterAllTasks ==
    /\ (pc \in AfterFanIn \/ pagesFile # Null \/ stream # <<>> \/ corpusFile # Null) =>
          /\ InFlight = {}
          /\ queue = <<>>
          /\ \A i \in 1..Len(files) : i \in DOMAIN results
    /\ pc = "writingIndex" => (stream = <<>> /\ corpusFile = Null)
    /\ stream # <<>> => pagesFile # Null
    /\ corpusFile # Null => pagesFile # Null

\* C15 witness: the write of pages.json is pending after two tasks at K = 2
\* completed, and nothing has gone to the stream yet.
C15_Witness ==
    /\ pc = "writingIndex"
    /\ K = 2
    /\ Len(files) = 2
    /\ Len(completionOrder) = 2
    /\ stream = <<>>

\* C16: once stream.end has been called the stream holds the header, the TOC
\* and every section up to the last; llm.txt is that stream; and main is past
\* generateLLMTextStream (UI written, exit 0) only when the stream has
\* finished.
C16_StreamFinalizedAfterLastSection ==
    /\ pc \in {"streamEnding", "afterCorpus", "exit0"} =>
          LET ok == WithoutFailure(extracted)
          IN  /\ Len(stream) = 3 + 2 * Len(ok)
              /\ stream[1].kind = "source"
              /\ stream[2].kind = "filesProcessed"
              /\ stream[3].kind = "toc"
              /\ SectionRels(stream) = [i \in 1..Len(ok) |-> ok[i].rel]
              /\ Len(ok) > 0 => stream[Len(stream)].kind = "body"
    /\ pc = "streamEnding" => corpusFile = Null
    /\ corpusFile # Null => corpusFile = Some(stream)
    /\ pc \in {"afterCorpus", "exit0"} => corpusFile # Null
    /\ uiFile # Null => corpusFile # Null

\* C16 witness: the run exited with code 0 after a corpus of two sections.
C16_Witness ==
    /\ pc = "exit0"
    /\ corpusFile # Null
    /\ Len(SectionRels(corpusFile[1])) = 2

\* ------------------------------------------- runs started in other directories
\* A document that is read and stat'ed without failure.
ReadableDoc == [html |-> HtmlMainDoc, readOk |-> TRUE, message |-> "", statOk |-> TRUE]

\* Files at the top of SRC_DIR and in its subdirectory t.
TreeNames == {NameT, NameTT, NameSubT, NameBackslash}

TreeDisks ==
    UNION {[names -> {ReadableDoc}] :
              names \in {S \in SUBSET TreeNames : Cardinality(S) <= MaxFiles}}

\* main started in the parent of SRC_DIR, in SRC_DIR or in SRC_DIR/t, over a
\* tree of readable documents.
InitTree ==
    /\ cwd \in {CwdParent, CwdSrc, CwdSub}
    /\ arg = Null
    /\ ret = Null
    /\ srcExists \in BOOLEAN
    /\ disk \in (IF srcExists THEN TreeDisks ELSE {Empty})
    /\ K \in 0..MaxK
    /\ MainStart

SpecTree == InitTree /\ [][Next]_vars

\* The paths shown in the rows of the TOC of a corpus (none for the sentinel).
TocRowPaths(chunks) ==
    IF "rows" \in DOMAIN chunks[3].toc
    THEN [i \in 1..Len(chunks[3].toc.rows) |-> chunks[3].toc.rows[i].relPath]
    ELSE <<>>

\* C17: for every source root and working directory, the rows of the TOC are
\* in ascending order of the path each row shows (the path relative to the
\* source root), be it under code-unit comparison or under localeCompare.
C17_TocSortedByShownPath ==
    corpusFile # Null =>
        \/ AscendingByCodeUnit(TocRowPaths(corpusFile[1]))
        \/ OrderedByLocale(TocRowPaths(corpusFile[1]))

\* ------------------------------------------- functions applied on their own
\* main's variables while a function is applied on its own: main does not run.
MainIdle ==
    /\ cwd = CwdParent
    /\ srcExists = FALSE
    /\ disk = Empty
    /\ K = 1
    /\ MainStart

mainVars ==
    <<cwd, srcExists, disk, K, pc, fatalMsg, publicDir, files, queue,
      activeCount, kicks, task, started, res, results, completionOrder,
      extracted, pagesFile, stream, corpusFile, uiFile>>

\* The text $(Selectors[i]).text() of one of four kinds; the first character
\* tells the selectors apart.
SelectorMark == <<"1", "2", "3", "4", "5", "6", "7", "8">>

CandidateText(i, kind) ==
    CASE kind = "blank" -> <<" ">>
      [] kind = "short" -> <<SelectorMark[i], "x">>
      [] kind = "exact" -> <<"\r", SelectorMark[i]>>
                              \o [k \in 1..(MinContentLen - 1) |-> "x"] \o <<"\n">>
      [] kind = "over"  -> <<SelectorMark[i]>> \o [k \in 1..MinContentLen |-> "x"]

CandidateKinds == {"blank", "short", "exact", "over"}

\* Documents in which at most MaxFilled selectors match any text.
SelectorDoms ==
    UNION {{[i \in 1..Len(Selectors) |->
                IF i \in filled THEN CandidateText(i, kinds[i]) ELSE <<>>] :
              kinds \in [filled -> CandidateKinds]} :
           filled \in {S \in SUBSET (1..Len(Selectors)) : Cardinality(S) <= MaxFilled}}

InitSelect ==
    /\ arg \in SelectorDoms
    /\ ret = Null
    /\ MainIdle

\* The selector loop and the body fallback of extractTextFromHTML applied to
\* one document.
SelectCall ==
    /\ ret = Null
    /\ ret' = Some(SelectText(arg))
    /\ UNCHANGED <<arg, mainVars>>

SpecSelect == InitSelect /\ [][SelectCall]_vars

\* Selectors whose text has more than MinContentLen characters once trimmed.
Qualifying(dom) == {i \in 1..Len(Selectors) : Len(Trim(dom[i])) > MinContentLen}

\* C14: the raw text is the text of the first selector in priority order
\* whose trimmed length exceeds 50 (exactly 50 does not qualify); when none
\* qualifies it is the body text, empty when the body has none.
C14_FirstQualifyingSelector ==
    ret # Null =>
        IF Qualifying(arg) # {}
        THEN \E i \in Qualifying(arg) :
                /\ \A j \in Qualifying(arg) : i <= j
                /\ ret[1] = arg[i]
        ELSE ret[1] = arg[Len(Selectors)]

\* C14 witness: a candidate of exactly 50 trimmed characters was passed over
\* for a later one of 51.
C14_Witness ==
    /\ ret # Null
    /\ \E i, j \in 1..Len(Selectors) :
          /\ i < j
          /\ Len(Trim(arg[i])) = MinContentLen
          /\ Len(Trim(arg[j])) = MinContentLen + 1
          /\ ret[1] = arg[j]

\* Texts of at most MaxTextLen characters over a space, a carriage return, a
\* letter and the four delimiters.
TextAlphabet == {" ", "\r", "a", "[", "]", "{", "}"}

Texts == UNION {[1..n -> TextAlphabet] : n \in 0..MaxTextLen}

InitNormalize ==
    /\ arg \in Texts
    /\ ret = Null
    /\ MainIdle

\* The normalization of extractTextFromHTML applied to one text.
NormalizeCall ==
    /\ ret = Null
    /\ ret' = Some(Normalize(arg))
    /\ UNCHANGED <<arg, mainVars>>

SpecNormalize == InitNormalize /\ [][NormalizeCall]_vars

\* t holds two consecutive spaces.
HasDoubleSpace(t) == \E i \in 1..(Len(t) - 1) : t[i] = " " /\ t[i + 1] = " "

\* t holds an opening delimiter with a closing one after it.
HasFragment(t, open, close) ==
    \E i, j \in 1..Len(t) : i < j /\ t[i] = open /\ t[j] = close

\* C18: the normalized text holds no two consecutive spaces and no [..] or
\* {..} fragment, and normalizing it again returns it unchanged.
C18_NormalizeIdempotent ==
    ret # Null =>
        /\ ~HasDoubleSpace(ret[1])
        /\ ~HasFragment(ret[1], "[", "]")
        /\ ~HasFragment(ret[1], "{", "}")
        /\ Normalize(ret[1]) = ret[1]

====
